---- MODULE Spec2Model ----
(***************************************************************************)
(* Tic-Tac-Toe on Cloudflare Durable Objects.                              *)
(*                                                                         *)
(* The repository holds two variants of the game server:                   *)
(*   - GameManager (src/src/do/GameManager.ts): one Durable Object that    *)
(*     keeps game records in its key/value storage and is driven by        *)
(*     WebSocket messages (create_game, update_game, end_game);            *)
(*   - GameAgent + GameApi (src/src/agents/Game.ts, src/src/lib/GameApi.ts)*)
(*     : one agent per game whose state is read and written by the server  *)
(*     functions of GameApi.                                               *)
(* The variable `variant` says which of the two a behaviour is about; the  *)
(* variables of the other variant keep their idle values.                  *)
(*                                                                         *)
(* Scheduling.  A Durable Object runs one piece of JavaScript at a time    *)
(* and, while a handler awaits its own storage (ctx.storage.get/put/       *)
(* delete), delivers no other event to the object (input gates).           *)
(* GameManager.applyMove awaits nothing but storage and an already         *)
(* resolved promise, so a WebSocket message is handled in one step.  The   *)
(* AI task awaits a timer and the move-decision collaborator: these are    *)
(* the points where other events interleave, and each is a step boundary   *)
(* below.  The server functions of GameApi run outside the agent; each     *)
(* `await game.state`, `game.setState`, `game.makeAIMove` is a separate    *)
(* call on the agent and a step boundary.                                  *)
(***************************************************************************)
EXTENDS Integers, Sequences, FiniteSets, Bags, TLC

VARIABLES
    variant,    \* "GameManager" or "GameAgent"
    \* ---- GameManager
    storage,    \* ctx.storage: game id -> serialized record, or NoRecord
    initBoard,  \* the module-level initBoard array
    connState,  \* connection.state.id of each connection, or Closed
    aiTasks,    \* bag of AI tasks handed to ctx.waitUntil and not yet finished
    \* ---- GameAgent / GameApi
    agent,      \* GameAgent.state
    creation,   \* the GameApi.createGame call
    calls,      \* the GameApi calls on the game in progress, one per caller
    callsMade,  \* number of GameApi calls on the game started
    \* ---- LobbyAgent
    lobbyState,     \* LobbyAgent.state: the two summary lists
    games,          \* rows of the SQL table games (slug is its primary key)
    gameAgents,     \* slugs whose GameAgent holds a set-up state
    lobbyCalls,     \* the LobbyAgent call of each caller
    lobbyCallsMade, \* number of LobbyAgent calls started
    slugsMade,      \* number of distinct slugs generated so far
    \* ---- the functions applied to arbitrary boards
    fnCall,         \* the board, the function applied to it and what it gave
    \* ---- all
    clock       \* number of Date values taken so far

vars == <<variant, storage, initBoard, connState, aiTasks,
          agent, creation, calls, callsMade,
          lobbyState, games, gameAgents, lobbyCalls, lobbyCallsMade, slugsMade,
          fnCall, clock>>

gmVars == <<storage, initBoard, connState, aiTasks>>
apiVars == <<agent, creation, calls, callsMade>>
lobbyVars == <<lobbyState, games, gameAgents, lobbyCalls, lobbyCallsMade,
               slugsMade>>

-----------------------------------------------------------------------------
(* Values *)

None == "null"                 \* JavaScript null / undefined
Cells == 0 .. 8
Marks == {"X", "O"}
EmptyBoard == [i \in Cells |-> None]

MarkCount(board) == Cardinality({i \in Cells : board[i] # None})
CountOf(board, s) == Cardinality({i \in Cells : board[i] = s})
EmptyCells(board) == {i \in Cells : board[i] = None}
SetMin(S) == CHOOSE x \in S : \A y \in S : x <= y

\* Array.prototype.findIndex((square) => square === null)
findIndexNull(board) ==
    IF EmptyCells(board) = {} THEN -1 ELSE SetMin(EmptyCells(board))

lines ==
    << <<0, 1, 2>>, <<3, 4, 5>>, <<6, 7, 8>>,
       <<0, 3, 6>>, <<1, 4, 7>>, <<2, 5, 8>>,
       <<0, 4, 8>>, <<2, 4, 6>> >>

LineHit(board, i) ==
    /\ board[lines[i][1]] # None
    /\ board[lines[i][1]] = board[lines[i][2]]
    /\ board[lines[i][1]] = board[lines[i][3]]

calculateWinnerDrawFirst(board) ==
    LET hits == {i \in 1 .. Len(lines) : LineHit(board, i)}
    IN  IF \A i \in Cells : board[i] # None THEN "Draw"
        ELSE IF hits # {} THEN board[lines[SetMin(hits)][1]]
        ELSE None

\* A calculateWinner that reports no draw
calculateWinnerNoDraw(board) ==
    LET hits == {i \in 1 .. Len(lines) : LineHit(board, i)}
    IN  IF hits # {} THEN board[lines[SetMin(hits)][1]]
        ELSE None

\* GameManager.calculateWinner: the first uniform line in the order of `lines`,
\* else "Draw" on a full board, else undefined.
calculateWinner(board) ==
    LET hits == {i \in 1 .. Len(lines) : LineHit(board, i)}
    IN  IF hits # {} THEN board[lines[SetMin(hits)][1]]
        ELSE IF \A i \in Cells : board[i] # None THEN "Draw"
        ELSE None

-----------------------------------------------------------------------------
(* GameManager: values *)

GameIds == {"g1"}              \* the ids crypto.randomUUID() can return
UrlGameId == "lobby"           \* the id in the WebSocket URL (the client's baseUrl)
Closed == "closed"
Conns == {"c1"}
CreatorIds == {"You"}          \* playerId of create_game (the client sends "You")
PlayerIds == {"You", "ai"}    \* playerId of update_game
Positions == -1 .. 9           \* spaceTaken of update_game
MaxAITasks == 1                \* AI tasks in flight at once

NoRecord == << >>

\* One broadcast or send.  `to` is "all" for this.broadcast, else a connection.
Msg(type, to, gameId) ==
    [type |-> type, to |-> to, gameId |-> gameId,
     board |-> EmptyBoard, isXNext |-> TRUE, winner |-> None]

\* A broadcastGameUpdate that leaves the winner out
broadcastGameUpdateNoWinner(gameId, game) ==
    [type |-> "game_updated", to |-> "all", gameId |-> game.id,
     board |-> game.board, isXNext |-> game.isXNext, winner |-> None]

\* GameManager.broadcastGameUpdate
broadcastGameUpdate(gameId, game) ==
    [type |-> "game_updated", to |-> "all", gameId |-> game.id,
     board |-> game.board, isXNext |-> game.isXNext, winner |-> game.winner]

\* Date.prototype.toISOString and new Date(iso)
toISOString(d) == [iso |-> d]
parseDate(s) == s.iso

\* GameManager.saveGame: the record as JSON.stringify writes it
serialize(game) == [game EXCEPT !.updatedAt = toISOString(@)]

\* GameManager.loadGame: undefined (<< >>) when the key is absent
loadGame(store, gameId) ==
    IF gameId \notin DOMAIN store \/ store[gameId] = NoRecord THEN NoRecord
    ELSE << [store[gameId][1] EXCEPT !.updatedAt = parseDate(@)] >>

saveGame(store, game) == [store EXCEPT ![game.id] = << serialize(game) >>]

deleteGame(store, gameId) ==
    IF gameId \in DOMAIN store THEN [store EXCEPT ![gameId] = NoRecord] ELSE store

\* A createGame that starts from the board of the record stored under the id
createGameOnStoredBoard(id, playerId, board, now) ==
    [id |-> id, xPlayer |-> playerId, oPlayer |-> "ai",
     board |-> IF storage[id] # NoRecord THEN storage[id][1].board ELSE board,
     isXNext |-> TRUE, winner |-> None, updatedAt |-> now]

\* GameManager.createGame
createGame(id, playerId, board, now) ==
    [id |-> id, xPlayer |-> playerId, oPlayer |-> "ai", board |-> board,
     isXNext |-> TRUE, winner |-> None, updatedAt |-> now]

ErrNotFound == "Game not found"
ErrMismatch == "Game ID mismatch"
ErrNotX == "Not X player's turn"
ErrNotO == "Not O player's turn"
ErrPosition == "Invalid move position"
ErrOccupied == "Position is already occupied"
MoveErrors == {ErrNotFound, ErrMismatch, ErrNotX, ErrNotO, ErrPosition, ErrOccupied}

\* A turn check that tests X's turn only
turnErrorXOnly(game, playerId) ==
    IF game.isXNext /\ game.xPlayer # playerId THEN ErrNotX ELSE ""

\* applyMove's turn checks (lines 278-286): "" when the player owns the turn
turnError(game, playerId) ==
    IF game.isXNext /\ game.xPlayer # playerId THEN ErrNotX
    ELSE IF ~game.isXNext /\ game.oPlayer # playerId THEN ErrNotO
    ELSE ""

\* applyMove's position checks (lines 289-295)
positionError(game, move) ==
    IF move < 0 \/ move > 8 THEN ErrPosition
    ELSE IF game.board[move] # None THEN ErrOccupied
    ELSE ""

\* An update that never passes the turn back to X
appliedTurnStuck(game, move, now) ==
    LET board == [game.board EXCEPT ![move] = IF game.isXNext THEN "X" ELSE "O"]
        winner == calculateWinner(board)
    IN  [game EXCEPT !.board = board,
                     !.isXNext = FALSE,
                     !.updatedAt = now,
                     !.winner = IF winner # None THEN winner ELSE @]

\* applyMove's update (lines 297-305)
applied(game, move, now) ==
    LET board == [game.board EXCEPT ![move] = IF game.isXNext THEN "X" ELSE "O"]
        winner == calculateWinner(board)
    IN  [game EXCEPT !.board = board,
                     !.isXNext = ~game.isXNext,
                     !.updatedAt = now,
                     !.winner = IF winner # None THEN winner ELSE @]

\* An applyMove without the turn checks
applyMoveNoTurnCheck(store, gameId, move, playerId, now) ==
    LET loaded == loadGame(store, gameId)
    IN  IF loaded = NoRecord
            THEN [err |-> ErrNotFound, game |-> NoRecord, store |-> store]
        ELSE IF positionError(loaded[1], move) # ""
            THEN [err |-> positionError(loaded[1], move), game |-> NoRecord,
                  store |-> store]
        ELSE [err |-> "", game |-> << applied(loaded[1], move, now) >>,
              store |-> saveGame(store, applied(loaded[1], move, now))]

\* An applyMove that stamps and saves the record before it validates the move
applyMoveSavesFirst(store, gameId, move, playerId, now) ==
    LET loaded == loadGame(store, gameId)
        stamped == IF loaded = NoRecord THEN store
                   ELSE saveGame(store, [loaded[1] EXCEPT !.updatedAt = now])
    IN  IF loaded = NoRecord
            THEN [err |-> ErrNotFound, game |-> NoRecord, store |-> store]
        ELSE IF turnError(loaded[1], playerId) # ""
            THEN [err |-> turnError(loaded[1], playerId), game |-> NoRecord,
                  store |-> stamped]
        ELSE IF positionError(loaded[1], move) # ""
            THEN [err |-> positionError(loaded[1], move), game |-> NoRecord,
                  store |-> stamped]
        ELSE [err |-> "", game |-> << applied(loaded[1], move, now) >>,
              store |-> saveGame(store, applied(loaded[1], move, now))]

\* An applyMove that starts a new record when it finds none
applyMoveOnMissing(store, gameId, move, playerId, now) ==
    LET loaded == IF loadGame(store, gameId) # NoRecord
                  THEN loadGame(store, gameId)
                  ELSE << [createGame(gameId, "You", EmptyBoard, now)
                              EXCEPT !.isXNext = FALSE] >>
    IN  IF turnError(loaded[1], playerId) # ""
            THEN [err |-> turnError(loaded[1], playerId), game |-> NoRecord,
                  store |-> store]
        ELSE IF positionError(loaded[1], move) # ""
            THEN [err |-> positionError(loaded[1], move), game |-> NoRecord,
                  store |-> store]
        ELSE [err |-> "", game |-> << applied(loaded[1], move, now) >>,
              store |-> saveGame(store, applied(loaded[1], move, now))]

\* GameManager.applyMove: [err, game, store].  err is the error thrown ("" when
\* none), store the storage as the call leaves it, game the record returned.
applyMove(store, gameId, move, playerId, now) ==
    LET loaded == loadGame(store, gameId)
    IN  IF loaded = NoRecord
            THEN [err |-> ErrNotFound, game |-> NoRecord, store |-> store]
        ELSE IF turnError(loaded[1], playerId) # ""
            THEN [err |-> turnError(loaded[1], playerId), game |-> NoRecord,
                  store |-> store]
        ELSE IF positionError(loaded[1], move) # ""
            THEN [err |-> positionError(loaded[1], move), game |-> NoRecord,
                  store |-> store]
        ELSE [err |-> "", game |-> << applied(loaded[1], move, now) >>,
              store |-> saveGame(store, applied(loaded[1], move, now))]

\* GameManager.updateState
updateState(store, gameId, dataGameId, move, playerId, now) ==
    IF gameId # dataGameId
        THEN [err |-> ErrMismatch, game |-> NoRecord, store |-> store]
    ELSE applyMove(store, gameId, move, playerId, now)

\* The test of onMessage (line 90) that hands an AI task to ctx.waitUntil
spawnsAITask(game) == game.oPlayer = "ai" /\ ~game.isXNext /\ game.winner = None

-----------------------------------------------------------------------------
(* GameManager: the move-decision collaborator (TicTacToeExpert.makeAIMove) *)

AIThrow == -2                  \* the collaborator threw
AIReplies == Positions \cup {AIThrow}

\* A makeAIPlay that passes the collaborator's reply on unchecked
aiChoiceUnchecked(game, reply) == [move |-> reply, fallback |-> FALSE]

\* A makeAIPlay whose fallback is the last empty cell
aiChoiceLastEmpty(game, reply) ==
    IF reply = AIThrow THEN [move |-> AIThrow, fallback |-> FALSE]
    ELSE IF reply < 0 \/ reply > 8 \/ game.board[reply] # None
        THEN IF findIndexNull(game.board) < 0
                 THEN [move |-> AIThrow, fallback |-> TRUE]
                 ELSE [move |-> CHOOSE i \in EmptyCells(game.board) :
                                    \A j \in EmptyCells(game.board) : j <= i,
                       fallback |-> TRUE]
    ELSE [move |-> reply, fallback |-> FALSE]

\* makeAIPlay after the collaborator answered (lines 163-181): the position it
\* passes to applyMove, computed on the record it loaded before the call.
\* AIThrow stands for the catch branch.
aiChoice(game, reply) ==
    IF reply = AIThrow THEN [move |-> AIThrow, fallback |-> FALSE]
    ELSE IF reply < 0 \/ reply > 8 \/ game.board[reply] # None
        THEN IF findIndexNull(game.board) < 0
                 THEN [move |-> AIThrow, fallback |-> TRUE]
                 ELSE [move |-> findIndexNull(game.board), fallback |-> TRUE]
    ELSE [move |-> reply, fallback |-> FALSE]

\* makeAIPlay's early returns (lines 153-159)
aiPlayReturnsEarly(loaded) ==
    \/ loaded = NoRecord
    \/ loaded[1].oPlayer # "ai"
    \/ loaded[1].isXNext
    \/ loaded[1].winner # None

Task(gameId, phase, move, fallback) ==
    [gameId |-> gameId, phase |-> phase, move |-> move, fallback |-> fallback]
Sleeping(gameId) == Task(gameId, "delay", AIThrow, FALSE)

-----------------------------------------------------------------------------
(* GameManager: handlers.                                                  *)
(* Each handler is an operator giving its effect on the object in the      *)
(* current state: the error it throws ("" when none), the storage, the     *)
(* connection states, the AI tasks and the clock it leaves, and the        *)
(* messages it sends, in order.  The actions below install these effects.  *)

Effect(err, store, conn, tasks, now, sent) ==
    [err |-> err, storage |-> store, connState |-> conn, aiTasks |-> tasks,
     clock |-> now, sent |-> sent]

\* onConnect: the connection is bound to the id in the URL
onConnect(c) ==
    Effect("", storage, [connState EXCEPT ![c] = UrlGameId], aiTasks, clock,
           << Msg("player_connected", c, UrlGameId) >>)

\* onMessage, case "create_game"
onCreateGame(c, id, playerId) ==
    LET game == createGame(id, playerId, initBoard, clock + 1)
    IN  Effect("", saveGame(storage, game), [connState EXCEPT ![c] = game.id],
               aiTasks, clock + 1, << Msg("game_created", "all", game.id) >>)

\* An update_game handler that answers before it announces the AI
onUpdateGameAnswersFirst(c, data) ==
    LET gameId == connState[c]
        r == updateState(storage, gameId, data.gameId, data.spaceTaken,
                         data.playerId, clock + 1)
        spawn == spawnsAITask(r.game[1])
    IN  IF r.err # ""
        THEN Effect(r.err, r.store, connState, aiTasks, clock, << >>)
        ELSE Effect("", r.store,
                    [connState EXCEPT ![c] = r.game[1].id],
                    IF spawn THEN aiTasks (+) SetToBag({Sleeping(gameId)})
                    ELSE aiTasks,
                    clock + 1,
                    << broadcastGameUpdate(gameId, r.game[1]) >>
                    \o << Msg("move_processed", "all", gameId) >>
                    \o (IF spawn THEN << Msg("ai_thinking", "all", gameId) >>
                        ELSE << >>))

\* onMessage, case "update_game": updateState, connection.setState,
\* broadcastGameUpdate, the AI task handed to ctx.waitUntil up to its first
\* await (the ai_thinking broadcast), then the move_processed broadcast.
\* A thrown error ends the handler before any write or broadcast.
onUpdateGame(c, data) ==
    LET gameId == connState[c]
        r == updateState(storage, gameId, data.gameId, data.spaceTaken,
                         data.playerId, clock + 1)
        spawn == spawnsAITask(r.game[1])
    IN  IF r.err # ""
        THEN Effect(r.err, r.store, connState, aiTasks, clock, << >>)
        ELSE Effect("", r.store,
                    [connState EXCEPT ![c] = r.game[1].id],
                    IF spawn THEN aiTasks (+) SetToBag({Sleeping(gameId)})
                    ELSE aiTasks,
                    clock + 1,
                    << broadcastGameUpdate(gameId, r.game[1]) >>
                    \o (IF spawn THEN << Msg("ai_thinking", "all", gameId) >>
                        ELSE << >>)
                    \o << Msg("move_processed", "all", gameId) >>)

\* Who receives a message, given the connections' states after the handler
Receivers(msg, conn) ==
    {d \in DOMAIN conn : conn[d] # Closed /\ (msg.to = "all" \/ msg.to = d)}

\* onClose: the closed connection is sent player_disconnected; nothing is
\* broadcast
onClose(c) ==
    Effect("", storage, [connState EXCEPT ![c] = Closed], aiTasks, clock,
           << Msg("player_disconnected", c, connState[c]) >>)

\* onMessage, case "end_game"
onEndGame(c) ==
    Effect("", deleteGame(storage, connState[c]), connState, aiTasks, clock,
           << Msg("game_ended", "all", connState[c]) >>)

\* The AI task after its 500 ms timer: makeAIPlay loads the record and returns
\* if it is not the AI's turn, else calls the collaborator.  The collaborator's
\* reply is drawn here, at the call; the position makeAIPlay derives from it
\* and from the record it loaded is kept in the task until the reply arrives.
aiTaskCall(t, reply) ==
    LET loaded == loadGame(storage, t.gameId)
        rest == aiTasks (-) SetToBag({t})
    IN  IF aiPlayReturnsEarly(loaded)
        THEN Effect("", storage, connState, rest, clock, << >>)
        ELSE LET ch == aiChoice(loaded[1], reply)
             IN  Effect("", storage, connState,
                        rest (+) SetToBag({Task(t.gameId, "thinking", ch.move,
                                                ch.fallback)}),
                        clock, << >>)

\* The collaborator answered: applyMove with the AI's identity on the record as
\* it is now.  makeAIPlay catches every error and the task then sends nothing;
\* `err` reports the caught error.
aiTaskApply(t) ==
    LET rest == aiTasks (-) SetToBag({t})
        r == applyMove(storage, t.gameId, t.move, "ai", clock + 1)
    IN  IF t.move = AIThrow
        THEN Effect("collaborator failed", storage, connState, rest, clock, << >>)
        ELSE IF r.err # ""
        THEN Effect(r.err, r.store, connState, rest, clock, << >>)
        ELSE Effect("", r.store, connState, rest, clock + 1,
                    << broadcastGameUpdate(t.gameId, r.game[1]) >>)

-----------------------------------------------------------------------------
(* GameAgent and GameApi: values *)

Slug == "s1"                   \* the slug LobbyAgent.createGame generates
Callers == {"p1", "p2"}        \* clients calling GameApi.makeMove at once
MaxMoveCalls == 2               \* GameApi calls on the game in one behaviour
ApiPositions == {-1, 0, 1}         \* position of GameApi.makeMove
GenValues == {0, 4, 9}         \* numbers generateMove returns

Human == "human"
AI == "ai"
Player(type, pending) == [type |-> type, pending |-> pending]
Other(sym) == IF sym = "X" THEN "O" ELSE "X"

NoGame == << >>

\* The players of a game object that has no players property
NoPlayers == [s \in Marks |-> Player("undefined", FALSE)]
HasPlayers(st) == st.game # NoGame /\ st.game[1].players # NoPlayers

\* GameAgent.initialState
initialState ==
    [slug |-> "", waitingForPlayers |-> TRUE, inProgress |-> FALSE,
     updatedAt |-> 0, game |-> NoGame]

\* GameAgent.initialGame
initialGame ==
    [players |-> [X |-> Player(Human, TRUE), O |-> Player(AI, TRUE)],
     currentTurn |-> "X", board |-> EmptyBoard, winner |-> None]

\* GameAgent.aiPlayer
aiPlayer(st) ==
    IF st.game = NoGame THEN None
    ELSE IF st.game[1].players.X.type = AI THEN "X"
    ELSE IF st.game[1].players.O.type = AI THEN "O"
    ELSE None

\* GameAgent.isAIMove
isAIMove(st) ==
    IF st.game = NoGame \/ st.game[1].winner # None THEN FALSE
    ELSE st.game[1].currentTurn = aiPlayer(st)

\* GameAgent.setup: the state it sets
setup(slug) == [initialState EXCEPT !.game = << initialGame >>, !.slug = slug]

\* GameAgent.setup, lines 101-103: whether it starts makeAIMove.  The call
\* returns a position to nobody and writes nothing.
setupStartsAIMove(slug) == isAIMove(setup(slug))

\* GameApi.calculateWinner
apiCalculateWinner(board) ==
    LET hits == {i \in 1 .. Len(lines) : LineHit(board, i)}
    IN  IF hits # {} THEN board[lines[SetMin(hits)][1]]
        ELSE IF \A i \in Cells : board[i] # None THEN "Draw"
        ELSE None

\* What generateMove does: throws, or returns null or a number
GenThrow == [kind |-> "throw", v |-> 0]
GenNull == [kind |-> "null", v |-> 0]
GenValue(v) == [kind |-> "value", v |-> v]
GenOutcomes == {GenThrow, GenNull} \cup {GenValue(v) : v \in GenValues}

isValidMoveAnyCell(gen, board) ==
    /\ gen.kind = "value"
    /\ gen.v >= 0
    /\ gen.v <= 8

\* BaseBotPlayer.isValidMove
isValidMove(gen, board) ==
    /\ gen.kind = "value"
    /\ gen.v >= 0
    /\ gen.v <= 8
    /\ board[gen.v] = None

BotThrow == -2                 \* makeMove throws "No valid moves available"

\* BaseBotPlayer.getFallbackMove
getFallbackMove(board) ==
    IF findIndexNull(board) # -1 THEN findIndexNull(board) ELSE BotThrow

\* BaseBotPlayer.makeMove: generateMove's value when it is valid, else (and
\* when generateMove throws) the fallback move.
botMakeMove(board, gen) ==
    IF gen.kind = "throw" THEN getFallbackMove(board)
    ELSE IF isValidMove(gen, board) THEN gen.v
    ELSE getFallbackMove(board)

\* GameApi.createGame, lines 83-129: the state it writes from the state it read
configured(st, opponentType, creatorSymbol) ==
    LET g == st.game[1]
        mine == [g.players[creatorSymbol] EXCEPT !.pending = FALSE]
        theirs == IF opponentType = AI THEN Player(AI, FALSE)
                  ELSE Player(Human, TRUE)
        players == [s \in Marks |-> IF s = creatorSymbol THEN mine ELSE theirs]
    IN  [st EXCEPT !.game = << [g EXCEPT !.players = players] >>,
                   !.waitingForPlayers = FALSE,
                   !.inProgress = TRUE]

\* GameApi.makeMove, lines 184-186: the error it throws on the state it read
ErrApiNotFound == "Game not found"
ErrApiInvalid == "Invalid move"
moveError(st, position) ==
    IF st.game = NoGame THEN ErrApiNotFound
    ELSE IF position \notin Cells \/ st.game[1].board[position] # None
        THEN ErrApiInvalid
    ELSE ""

\* GameApi.makeMove, lines 189-198: the state of the first setState
moved(st, position, playerSymbol, now) ==
    LET newBoard == [st.game[1].board EXCEPT ![position] = playerSymbol]
    IN  [st EXCEPT !.game = << [st.game[1] EXCEPT
                                   !.board = newBoard,
                                   !.winner = apiCalculateWinner(newBoard)] >>,
                   !.updatedAt = now]

\* GameApi.makeMove, lines 203-205: whether the AI move is requested (reading
\* the players of a game object without players throws and ends the call)
wantsAIMove(st, position, playerSymbol) ==
    /\ HasPlayers(st)
    /\ st.game[1].players[Other(playerSymbol)].type = AI
    /\ moved(st, position, playerSymbol, 0).game[1].winner = None

\* GameApi.makeMove, lines 207-216: the state of the second setState, built on
\* the call's own newBoard and on the state read after makeAIMove returned
aiMoved(st, position, playerSymbol, aiMove, updatedState, now) ==
    LET newBoard == [st.game[1].board EXCEPT ![position] = playerSymbol]
        aiBoard == [newBoard EXCEPT ![aiMove] = Other(playerSymbol)]
        base == IF updatedState.game = NoGame
                    THEN [players |-> NoPlayers, currentTurn |-> None,
                          board |-> aiBoard, winner |-> None]
                    ELSE updatedState.game[1]
    IN  [updatedState EXCEPT
            !.game = << [base EXCEPT !.board = aiBoard,
                                     !.winner = apiCalculateWinner(aiBoard)] >>,
            !.updatedAt = now]

\* GameApi.createGame, lines 131-135: the value it returns
createReturn(opponentType, creatorSymbol) ==
    [slug |-> Slug, creatorSymbol |-> creatorSymbol,
     waitingForPlayer |-> (opponentType = Human)]

\* GameApi.getGameState: [err, state].  It returns whatever state the agent
\* holds and throws nothing.
getGameState(st) == [err |-> "", state |-> st]

ErrFull == "Game full"
ErrNoGame == "TypeError: game or players undefined"

\* A joinGame without its waitingForPlayers test
joinErrorNoTest(st) == IF ~HasPlayers(st) THEN ErrNoGame ELSE ""

\* GameApi.joinGame, lines 247-252: the error thrown on the state it read
joinError(st) ==
    IF ~st.waitingForPlayers THEN ErrFull
    ELSE IF ~HasPlayers(st) THEN ErrNoGame
    ELSE ""

\* GameApi.joinGame / switchToAI: the pending symbol (lines 250-252, 294-296)
pendingSymbol(st) == IF st.game[1].players.X.pending THEN "X" ELSE "O"

\* GameApi.joinGame, lines 254-268: the state it writes
joined(st) ==
    [st EXCEPT !.game = << [st.game[1] EXCEPT
                               !.players[pendingSymbol(st)].pending = FALSE] >>,
               !.waitingForPlayers = FALSE,
               !.inProgress = TRUE]

\* GameApi.joinGame run alone: [err, state], state being the agent's state after
joinGame(st) ==
    IF joinError(st) # "" THEN [err |-> joinError(st), state |-> st]
    ELSE [err |-> "", state |-> joined(st)]

\* GameApi.switchToAI, lines 291-296: the error thrown on the state it read
switchError(st) == IF ~HasPlayers(st) THEN ErrNoGame ELSE ""

\* GameApi.switchToAI, lines 298-315: the state it writes
switched(st) ==
    [st EXCEPT !.game = << [st.game[1] EXCEPT
                               !.players[pendingSymbol(st)] = Player(AI, FALSE)] >>,
               !.waitingForPlayers = FALSE,
               !.inProgress = TRUE]

\* GameApi.switchToAI run alone: [err, state]
switchToAI(st) ==
    IF switchError(st) # "" THEN [err |-> switchError(st), state |-> st]
    ELSE [err |-> "", state |-> switched(st)]

\* GameApi.makeMove up to its first setState, run alone: [err, state]
makeMoveFirst(st, position, playerSymbol, now) ==
    IF moveError(st, position) # "" THEN [err |-> moveError(st, position), state |-> st]
    ELSE [err |-> "", state |-> moved(st, position, playerSymbol, now)]

NoCreation == [pc |-> "none", opponentType |-> AI, creatorSymbol |-> "X",
               aiStarted |-> FALSE, destroyed |-> FALSE,
               state |-> initialState]
NoCall == [pc |-> "idle", position |-> -1, playerSymbol |-> "X",
           state |-> initialState, aiMove |-> -1, updatedState |-> initialState]

-----------------------------------------------------------------------------
(* LobbyAgent: values and the pieces of createGame and deleteGame.  A call
   yields at each await of the GameAgent (setup, state, delete), where the
   calls of other clients may run. *)

LobbyCallers == {"u1", "u2"}
MaxLobbyCalls == 3
MaxSlugs == 7
ListLimit == 5
NoSlug == 0
ErrNoSlug == "No slug provided"
ErrUnique == "UNIQUE constraint failed: games.slug"

lobbyInitialState == [gamesSeekingPlayers |-> << >>, gamesInProgress |-> << >>]

ListOf(opponentType) ==
    IF opponentType = Human THEN "gamesSeekingPlayers" ELSE "gamesInProgress"

\* The summary createGame builds (its two time fields, copied from the game's
\* state, are not kept)
Summary(slug, opponentType) ==
    [slug |-> slug, waitingForPlayers |-> opponentType = Human,
     inProgress |-> opponentType # Human]

\* list.slice(0, 5)
slice(list) ==
    SubSeq(list, 1, IF Len(list) < ListLimit THEN Len(list) ELSE ListLimit)

\* The two arrays createGame holds after its unshift
unshift(arrays, slug, opponentType) ==
    IF opponentType = Human
    THEN [arrays EXCEPT !.gamesSeekingPlayers =
                            << Summary(slug, opponentType) >> \o @]
    ELSE [arrays EXCEPT !.gamesInProgress =
                            << Summary(slug, opponentType) >> \o @]

\* The state createGame sets: ...this.state, then both arrays sliced
createdState(arrays, slug, opponentType) ==
    [gamesSeekingPlayers |->
         slice(unshift(arrays, slug, opponentType).gamesSeekingPlayers),
     gamesInProgress |->
         slice(unshift(arrays, slug, opponentType).gamesInProgress)]

\* list.filter((game) => game.slug !== slug)
removeSlug(list, slug) == SelectSeq(list, LAMBDA g : g.slug # slug)

deletedStateSeekingOnly(st, slug) ==
    [gamesSeekingPlayers |-> removeSlug(st.gamesSeekingPlayers, slug),
     gamesInProgress |-> st.gamesInProgress]

\* The state deleteGame sets
deletedState(st, slug) ==
    [gamesSeekingPlayers |-> removeSlug(st.gamesSeekingPlayers, slug),
     gamesInProgress |-> removeSlug(st.gamesInProgress, slug)]

\* A call: captured tells whether the arrays createGame read from this.state
\* at lines 282-283 are still the arrays of this.state ("live") or were
\* replaced there by a later setState ("stale", their contents in arrays);
\* again tells that deleteGame was called for a slug whose deletion had
\* already returned.
NoLobbyCall ==
    [op |-> "none", pc |-> "idle", slug |-> NoSlug, opponentType |-> Human,
     captured |-> "none", arrays |-> lobbyInitialState, again |-> FALSE,
     err |-> ""]

Returned(call, err) ==
    [call EXCEPT !.pc = "done", !.err = err, !.captured = "none",
                 !.arrays = lobbyInitialState]

\* No function applied to the board yet
NoFnCall(board) ==
    [op |-> "none", board |-> board, gen |-> GenNull,
     gmWinner |-> None, apiWinner |-> None, move |-> -1]

\* setState replaces the arrays of this.state: a call that holds the old ones
\* keeps them, with the contents they had.  With two callers no two calls
\* hold the same replaced arrays.
detach(cs, arrays) ==
    [v \in LobbyCallers |->
        IF cs[v].captured = "live"
        THEN [cs[v] EXCEPT !.captured = "stale", !.arrays = arrays]
        ELSE cs[v]]

DeletedOk(call, slug) ==
    call.op = "delete" /\ call.pc = "done" /\ call.err = "" /\ call.slug = slug

\* The lobby after n createGame calls of one opponent type, made one after
\* the other with slugs 1 .. n, have returned
Populated(n, opponentType) ==
    /\ lobbyState = [lobbyInitialState EXCEPT
                         ![ListOf(opponentType)] =
                             [i \in 1 .. n |->
                                 Summary(n + 1 - i, opponentType)]]
    /\ games = [i \in 1 .. n |-> i]
    /\ gameAgents = 1 .. n
    /\ lobbyCalls = [u \in LobbyCallers |-> NoLobbyCall]
    /\ lobbyCallsMade = 0
    /\ slugsMade = n

LobbyIdle == Populated(0, Human)

\* The lobby's slug whose GameAgent the model follows, `agent` being that
\* agent's state and Slug its name
Watched == SetMin(1 .. MaxSlugs)

\* The state of a game that createGame made for its creator X, who then played
\* cell 0
PlayedGame(opponentType) ==
    moved(configured(setup(Slug), opponentType, "X"), 0, "X", 0)

-----------------------------------------------------------------------------
(* GameManager: initial state and actions *)

InitGM ==
    /\ variant = "GameManager"
    /\ storage = [g \in GameIds |-> NoRecord]
    /\ initBoard = EmptyBoard
    /\ connState = [c \in Conns |-> Closed]
    /\ aiTasks = EmptyBag
    /\ agent = initialState
    /\ creation = NoCreation
    /\ calls = [p \in Callers |-> NoCall]
    /\ callsMade = 0
    /\ fnCall = NoFnCall(EmptyBoard)
    /\ LobbyIdle
    /\ clock = 0

IsGM == variant = "GameManager"

Install(e) ==
    /\ storage' = e.storage
    /\ connState' = e.connState
    /\ aiTasks' = e.aiTasks
    /\ clock' = e.clock
    /\ UNCHANGED <<variant, fnCall, lobbyVars, initBoard, apiVars>>

OnConnect(c) ==
    /\ IsGM
    /\ connState[c] = Closed
    /\ Install(onConnect(c))

OnCreateGame(c, playerId) ==
    /\ IsGM
    /\ connState[c] # Closed
    /\ \E id \in GameIds :
        /\ clock = 0                      \* randomUUID returns a fresh id
        /\ Install(onCreateGame(c, id, playerId))

OnUpdateGame(c, data) ==
    /\ IsGM
    /\ connState[c] # Closed
    /\ BagCardinality(onUpdateGame(c, data).aiTasks) <= MaxAITasks
    /\ Install(onUpdateGame(c, data))

OnEndGame(c) ==
    /\ IsGM
    /\ connState[c] # Closed
    /\ Install(onEndGame(c))

AITaskCall(t, reply) ==
    /\ IsGM
    /\ BagIn(t, aiTasks)
    /\ t.phase = "delay"
    /\ Install(aiTaskCall(t, reply))

AITaskApply(t) ==
    /\ IsGM
    /\ BagIn(t, aiTasks)
    /\ t.phase = "thinking"
    /\ Install(aiTaskApply(t))

\* The data of the update_game messages a client bound to `bound` sends: every
\* player and position with the bound id, and one message naming another id.
UpdateMessages(bound) ==
    [gameId : {bound}, playerId : PlayerIds, spaceTaken : Positions]
    \cup [gameId : (GameIds \cup {UrlGameId}) \ {bound}, playerId : {"You"},
          spaceTaken : {0}]

NextGM ==
    \/ \E c \in Conns : OnConnect(c)
    \/ \E c \in Conns, p \in CreatorIds : OnCreateGame(c, p)
    \/ \E c \in Conns : \E m \in UpdateMessages(connState[c]) : OnUpdateGame(c, m)
    \/ \E c \in Conns : OnEndGame(c)
    \/ \E t \in BagToSet(aiTasks), reply \in AIReplies : AITaskCall(t, reply)
    \/ \E t \in BagToSet(aiTasks) : AITaskApply(t)

SpecGM == InitGM /\ [][NextGM]_vars

\* The opening of a game: the behaviours of GameManager up to the AI's answer
\* to the first move, with the fairness of the AI task.  The AI task is a
\* promise handed to ctx.waitUntil: its timer fires and the collaborator's call
\* settles, so each of its two steps is eventually taken.
OpeningMarks == 2

InOpening(store) ==
    \A g \in GameIds :
        store[g] # NoRecord => MarkCount(store[g][1].board) <= OpeningMarks

NextOpening ==
    \/ \E c \in Conns : OnConnect(c)
    \/ \E c \in Conns, p \in CreatorIds : OnCreateGame(c, p)
    \/ \E c \in Conns : \E m \in UpdateMessages(connState[c]) :
            OnUpdateGame(c, m) /\ InOpening(onUpdateGame(c, m).storage)
    \/ \E c \in Conns : OnEndGame(c)
    \/ \E t \in BagToSet(aiTasks), reply \in AIReplies : AITaskCall(t, reply)
    \/ \E t \in BagToSet(aiTasks) :
            AITaskApply(t) /\ InOpening(aiTaskApply(t).storage)

FairAITask ==
    /\ WF_vars(\E t \in BagToSet(aiTasks), reply \in AIReplies : AITaskCall(t, reply))
    /\ WF_vars(\E t \in BagToSet(aiTasks) :
                  AITaskApply(t) /\ InOpening(aiTaskApply(t).storage))

SpecOpening == InitGM /\ [][NextOpening]_vars /\ FairAITask

\* A race: the first moves of a game with up to RaceTasks AI tasks in flight
\* at once.
RaceMarks == 4
RaceTasks == 2

NextRace ==
    \/ \E c \in Conns : OnConnect(c)
    \/ \E c \in Conns, p \in CreatorIds : OnCreateGame(c, p)
    \/ \E c \in Conns : \E m \in UpdateMessages(connState[c]) :
            /\ IsGM
            /\ connState[c] # Closed
            /\ BagCardinality(onUpdateGame(c, m).aiTasks) <= RaceTasks
            /\ \A g \in GameIds :
                  onUpdateGame(c, m).storage[g] # NoRecord =>
                      MarkCount(onUpdateGame(c, m).storage[g][1].board)
                          <= RaceMarks
            /\ Install(onUpdateGame(c, m))
    \/ \E c \in Conns : OnEndGame(c)
    \/ \E t \in BagToSet(aiTasks), reply \in AIReplies : AITaskCall(t, reply)
    \/ \E t \in BagToSet(aiTasks) :
            /\ AITaskApply(t)
            /\ \A g \in GameIds :
                  aiTaskApply(t).storage[g] # NoRecord =>
                      MarkCount(aiTaskApply(t).storage[g][1].board) <= RaceMarks

SpecRace == InitGM /\ [][NextRace]_vars

\* A room: two clients connected to the same GameManager object, with the
\* handlers of both and onClose, over the opening of a game.
RoomConns == {"c1", "c2"}

InitRoom ==
    /\ variant = "GameManager"
    /\ storage = [g \in GameIds |-> NoRecord]
    /\ initBoard = EmptyBoard
    /\ connState = [c \in RoomConns |-> Closed]
    /\ aiTasks = EmptyBag
    /\ agent = initialState
    /\ creation = NoCreation
    /\ calls = [p \in Callers |-> NoCall]
    /\ callsMade = 0
    /\ fnCall = NoFnCall(EmptyBoard)
    /\ LobbyIdle
    /\ clock = 0

OnClose(c) ==
    /\ IsGM
    /\ connState[c] # Closed
    /\ Install(onClose(c))

NextRoom ==
    \/ \E c \in RoomConns : OnConnect(c)
    \/ \E c \in RoomConns, p \in CreatorIds : OnCreateGame(c, p)
    \/ \E c \in RoomConns : \E m \in UpdateMessages(connState[c]) :
            OnUpdateGame(c, m) /\ InOpening(onUpdateGame(c, m).storage)
    \/ \E c \in RoomConns : OnEndGame(c)
    \/ \E c \in RoomConns : OnClose(c)
    \/ \E t \in BagToSet(aiTasks), reply \in AIReplies : AITaskCall(t, reply)
    \/ \E t \in BagToSet(aiTasks) :
            AITaskApply(t) /\ InOpening(aiTaskApply(t).storage)

SpecRoom == InitRoom /\ [][NextRoom]_vars

-----------------------------------------------------------------------------
(* Properties of GameManager *)

HasGame(g) == g \in GameIds /\ storage[g] # NoRecord
Stored(g) == storage[g][1]
Bound == {c \in DOMAIN connState : connState[c] # Closed}
Over(g) == HasGame(g) /\ Stored(g).winner # None
OnlyXAt0(board) == board = [EmptyBoard EXCEPT ![0] = "X"]

\* C1: once a game has a winner (X, O or Draw), every further update_game is
\* rejected and leaves the stored board as it was, whoever sends it and
\* whatever position it names.
C1_NoMoveAfterGameOver ==
    \A c \in Bound : Over(connState[c]) =>
        \A m \in UpdateMessages(connState[c]) :
            /\ onUpdateGame(c, m).err # ""
            /\ onUpdateGame(c, m).storage = storage

\* C2: the winner of a stored game, once X, O or Draw, is the same in every
\* later state in which the game is stored.
C2_WinnerNeverChanges ==
    [][\A g \in GameIds :
          (Over(g) /\ storage'[g] # NoRecord)
              => storage'[g][1].winner = Stored(g).winner]_vars

C5_OnlyTurnOwnerMoves ==
    /\ \A c \in Bound : HasGame(connState[c]) =>
          \A m \in UpdateMessages(connState[c]) :
              ( /\ m.gameId = connState[c]
                /\ m.playerId # (IF Stored(connState[c]).isXNext
                                    THEN Stored(connState[c]).xPlayer
                                    ELSE Stored(connState[c]).oPlayer) )
              => /\ onUpdateGame(c, m).err
                        = (IF Stored(connState[c]).isXNext THEN ErrNotX ELSE ErrNotO)
                 /\ onUpdateGame(c, m).storage = storage
    /\ \A t \in BagToSet(aiTasks) :
          ( /\ t.phase = "thinking"
            /\ t.move # AIThrow
            /\ HasGame(t.gameId)
            /\ Stored(t.gameId).isXNext )
          => /\ aiTaskApply(t).err = ErrNotX
             /\ aiTaskApply(t).storage = storage

\* C5 witness: it is X's turn with marks on the board, a message with the AI's
\* identity is rejected, and so is the move of an AI task that is still thinking.
C5_Witness ==
    \E c \in Bound : \E t \in BagToSet(aiTasks) :
        /\ HasGame(connState[c])
        /\ Stored(connState[c]).isXNext
        /\ MarkCount(Stored(connState[c]).board) = 2
        /\ t.phase = "thinking" /\ t.move \in Cells
        /\ Stored(connState[c]).board[t.move] = None
        /\ aiTaskApply(t).err = ErrNotX
        /\ onUpdateGame(c, [gameId |-> connState[c], playerId |-> "ai",
                            spaceTaken |-> t.move]).err = ErrNotX

\* C7: in every stored game isXNext is true exactly when the number of marks on
\* the board is even.
C7_TurnParity ==
    \A g \in GameIds : HasGame(g) =>
        (Stored(g).isXNext <=> MarkCount(Stored(g).board) % 2 = 0)

\* C7 witness: three moves have been applied, one of them by the AI task, and
\* it is O's turn.
C7_Witness ==
    \E g \in GameIds :
        /\ HasGame(g)
        /\ MarkCount(Stored(g).board) = 3
        /\ ~Stored(g).isXNext
        /\ \E t \in BagToSet(aiTasks) : t.phase = "delay"

\* The creator's first move at cell 0 is on the board, it is O's turn and the
\* AI task spawned for it has not finished
C9_AfterFirstMove ==
    \E g \in GameIds :
        /\ HasGame(g)
        /\ OnlyXAt0(Stored(g).board)
        /\ ~Stored(g).isXNext
        /\ \E t \in BagToSet(aiTasks) : t.gameId = g

\* Two marks: X at 0 and O elsewhere
C9_AIMoved ==
    \E g \in GameIds :
        /\ HasGame(g)
        /\ MarkCount(Stored(g).board) = 2
        /\ Stored(g).board[0] = "X"
        /\ \E i \in 1 .. 8 : Stored(g).board[i] = "O"

\* The collaborator threw, or the game was ended
C9_OutOfScenario ==
    \/ \E t \in BagToSet(aiTasks) : t.phase = "thinking" /\ t.move = AIThrow
    \/ \E c \in Bound : connState[c] \in GameIds /\ ~HasGame(connState[c])

\* C9: in a new game (creator X, opponent AI) update_game with spaceTaken 0 from
\* the creator is accepted, puts X at 0, passes the turn to O and starts an AI
\* task; from then on, if the AI task runs, the collaborator returns and the
\* game is not ended, a state with exactly two marks, X at 0 and O at another
\* cell, is eventually reached.
C9_AIAnswersFirstMove ==
    /\ [](\A c \in Bound :
            (HasGame(connState[c]) /\ Stored(connState[c]).board = EmptyBoard) =>
                LET e == onUpdateGame(c, [gameId |-> connState[c],
                                          playerId |-> Stored(connState[c]).xPlayer,
                                          spaceTaken |-> 0])
                IN  /\ e.err = ""
                    /\ OnlyXAt0(e.storage[connState[c]][1].board)
                    /\ ~e.storage[connState[c]][1].isXNext
                    /\ BagIn(Sleeping(connState[c]), e.aiTasks))
    /\ (C9_AfterFirstMove ~> (C9_AIMoved \/ C9_OutOfScenario))

\* C9 witness: the AI task has answered the creator's move at 0
C9_Witness ==
    /\ C9_AIMoved
    /\ aiTasks = EmptyBag
    /\ \E g \in GameIds : HasGame(g) /\ Stored(g).isXNext

\* C10: when the collaborator throws during the AI's turn, the AI task reports
\* no error and plays the lowest-indexed empty cell.
C10_FallbackAfterThrow ==
    \A t \in BagToSet(aiTasks) :
        ( /\ t.phase = "thinking"
          /\ t.move = AIThrow
          /\ ~t.fallback
          /\ ~aiPlayReturnsEarly(loadGame(storage, t.gameId)) )
        => /\ aiTaskApply(t).err = ""
           /\ aiTaskApply(t).storage[t.gameId] # NoRecord
           /\ aiTaskApply(t).storage[t.gameId][1].board
                  = [Stored(t.gameId).board EXCEPT
                        ![findIndexNull(Stored(t.gameId).board)] = "O"]

\* C23: an update_game that is out of turn and also names a position outside
\* 0..8 is rejected with the invalid-position error, and one that is out of
\* turn and names an occupied cell with the cell-occupied error.
C23_PositionErrorsBeforeTurn ==
    \A c \in Bound : HasGame(connState[c]) =>
        \A m \in UpdateMessages(connState[c]) :
            ( /\ m.gameId = connState[c]
              /\ Stored(connState[c]).winner = None
              /\ turnError(Stored(connState[c]), m.playerId) # "" )
            => /\ (m.spaceTaken < 0 \/ m.spaceTaken > 8)
                    => onUpdateGame(c, m).err = ErrPosition
               /\ ( /\ m.spaceTaken \in Cells
                    /\ Stored(connState[c]).board[m.spaceTaken] # None )
                    => onUpdateGame(c, m).err = ErrOccupied

\* C26: when the collaborator returns a position outside 0..8 or of a cell
\* that is not empty, makeAIPlay goes on with the lowest-indexed empty cell of
\* the board; and when that move is applied it is applied by applyMove with
\* the identity "ai", puts O there, and the cell is the lowest-indexed empty
\* cell of the stored board.
C26_AIFallbackLowestEmpty ==
    /\ \A t \in BagToSet(aiTasks) : \A reply \in Positions :
          ( /\ t.phase = "delay"
            /\ ~aiPlayReturnsEarly(loadGame(storage, t.gameId))
            /\ \/ reply \notin Cells
               \/ Stored(t.gameId).board[reply] # None )
          => \E t2 \in BagToSet(aiTaskCall(t, reply).aiTasks) :
                /\ t2.phase = "thinking" /\ t2.gameId = t.gameId
                /\ t2.fallback
                /\ t2.move \in Cells
                /\ Stored(t.gameId).board[t2.move] = None
                /\ \A i \in Cells :
                      i < t2.move => Stored(t.gameId).board[i] # None
    /\ \A t \in BagToSet(aiTasks) :
          ( /\ t.phase = "thinking" /\ t.fallback /\ t.move # AIThrow
            /\ aiTaskApply(t).err = "" )
          => /\ aiTaskApply(t).storage
                    = applyMove(storage, t.gameId, t.move, "ai", clock + 1).store
             /\ aiTaskApply(t).storage[t.gameId][1].board
                    = [Stored(t.gameId).board EXCEPT ![t.move] = "O"]
             /\ Stored(t.gameId).board[t.move] = None
             /\ \A i \in Cells :
                   i < t.move => Stored(t.gameId).board[i] # None

\* The collaborator's reply was not usable and the fallback move, not at cell
\* 0 or 1, is about to be applied
C26_Witness ==
    \E t \in BagToSet(aiTasks) :
        /\ t.phase = "thinking" /\ t.fallback /\ t.move > 1
        /\ aiTaskApply(t).err = ""

\* C28: an AI task's move is applied only on a stored game without winner
\* where it is O's turn and O is the AI.
C28_AIMovesOnlyInOpenGame ==
    \A t \in BagToSet(aiTasks) :
        ( /\ t.phase = "thinking" /\ t.move # AIThrow
          /\ aiTaskApply(t).err = "" )
        => /\ Stored(t.gameId).winner = None
           /\ ~Stored(t.gameId).isXNext
           /\ Stored(t.gameId).oPlayer = "ai"

Updates(sent) == {i \in 1 .. Len(sent) : sent[i].type = "game_updated"}

\* Whether `sent` holds exactly one game_updated, carrying the board, the turn
\* and the winner of the record stored under g in `store`
OneUpdateOf(sent, store, g) ==
    /\ Cardinality(Updates(sent)) = 1
    /\ \A i \in Updates(sent) :
           /\ sent[i].gameId = g
           /\ sent[i].board = store[g][1].board
           /\ sent[i].isXNext = store[g][1].isXNext
           /\ sent[i].winner = store[g][1].winner

\* C40: an accepted move, of a client or of the AI, is followed by exactly one
\* game_updated broadcast, which carries the board, the turn and the winner of
\* the game as the move leaves it (the mover's mark on the cell, the turn
\* passed on); a rejected move, and a step of the AI task that applies no
\* move, sends no game_updated.
C40_OneUpdatePerMove ==
    /\ \A c \in Bound : \A m \in UpdateMessages(connState[c]) :
           LET g == connState[c]
               e == onUpdateGame(c, m)
           IN  IF e.err # "" THEN Updates(e.sent) = {}
               ELSE /\ OneUpdateOf(e.sent, e.storage, g)
                    /\ e.storage[g][1].board
                           = [Stored(g).board EXCEPT ![m.spaceTaken] =
                                  IF Stored(g).isXNext THEN "X" ELSE "O"]
                    /\ e.storage[g][1].isXNext = ~Stored(g).isXNext
                    /\ e.storage[g][1].winner
                           = IF calculateWinner(e.storage[g][1].board) # None
                             THEN calculateWinner(e.storage[g][1].board)
                             ELSE Stored(g).winner
    /\ \A t \in BagToSet(aiTasks) :
           IF t.phase = "delay"
           THEN \A reply \in AIReplies :
                    Updates(aiTaskCall(t, reply).sent) = {}
           ELSE LET e == aiTaskApply(t)
                IN  IF e.err # "" THEN Updates(e.sent) = {}
                    ELSE /\ OneUpdateOf(e.sent, e.storage, t.gameId)
                         /\ e.storage[t.gameId][1].board
                                = [Stored(t.gameId).board
                                       EXCEPT ![t.move] = "O"]
                         /\ e.storage[t.gameId][1].isXNext

\* C40: the AI has moved, and a move that decides the game is about to be
\* accepted.
C40_Witness ==
    \E c \in Bound :
        /\ HasGame(connState[c])
        /\ CountOf(Stored(connState[c]).board, "O") >= 1
        /\ Stored(connState[c]).winner = None
        /\ \E m \in UpdateMessages(connState[c]) :
               /\ onUpdateGame(c, m).err = ""
               /\ onUpdateGame(c, m).storage[connState[c]][1].winner # None

\* C39: an AI task whose game has been ended (its record deleted by end_game)
\* while the task waited on its delay or on the collaborator applies no move
\* and does not write the record again: whichever step it takes next leaves
\* the storage as it is, broadcasts nothing and ends the task.
C39_EndedGameGetsNoAIMove ==
    \A t \in BagToSet(aiTasks) :
        ~HasGame(t.gameId) =>
            /\ t.phase = "delay" =>
                   \A reply \in AIReplies :
                       /\ aiTaskCall(t, reply).storage = storage
                       /\ aiTaskCall(t, reply).sent = << >>
                       /\ aiTaskCall(t, reply).aiTasks
                              = aiTasks (-) SetToBag({t})
            /\ t.phase = "thinking" =>
                   /\ aiTaskApply(t).storage = storage
                   /\ aiTaskApply(t).sent = << >>
                   /\ aiTaskApply(t).aiTasks = aiTasks (-) SetToBag({t})

\* C39: the collaborator is about to answer with a cell for a game that
\* end_game has deleted.
C39_Witness ==
    \E t \in BagToSet(aiTasks) :
        /\ t.phase = "thinking"
        /\ t.move \in Cells
        /\ ~HasGame(t.gameId)

\* C36: a stored game whose board has no empty cell has its winner set (X, O
\* or Draw); so makeAIPlay, which returns when the record it loaded has a
\* winner, never reaches the collaborator with a full board, and no AI task
\* ends in the fallback's "No more moves available" error.
C36_FullBoardHasWinner ==
    /\ \A g \in GameIds :
           (HasGame(g) /\ EmptyCells(Stored(g).board) = {})
               => Stored(g).winner \in {"X", "O", "Draw"}
    /\ \A t \in BagToSet(aiTasks) : ~(t.fallback /\ t.move = AIThrow)
    /\ \A t \in BagToSet(aiTasks), reply \in AIReplies :
           (t.phase = "delay"
                /\ ~aiPlayReturnsEarly(loadGame(storage, t.gameId)))
               => /\ findIndexNull(Stored(t.gameId).board) >= 0
                  /\ \A u \in BagToSet(aiTaskCall(t, reply).aiTasks) :
                         ~(u.fallback /\ u.move = AIThrow)

\* C36: an AI task waits on its delay while the board of its game is full.
C36_Witness ==
    \E t \in BagToSet(aiTasks) :
        /\ t.phase = "delay"
        /\ HasGame(t.gameId)
        /\ Stored(t.gameId).oPlayer = "ai"
        /\ EmptyCells(Stored(t.gameId).board) = {}
        /\ Stored(t.gameId).winner # None

\* C30: an accepted update_game that leaves the AI to move broadcasts the
\* game_updated of the human move, then ai_thinking, then move_processed, and
\* ends with the human's mark alone added and the AI task waiting on its
\* timer; the task sends nothing before it applies its move, and then the
\* game_updated of the AI move.
C30_BroadcastOrder ==
    /\ \A c \in Bound : HasGame(connState[c]) =>
          \A m \in UpdateMessages(connState[c]) :
              LET g == connState[c]
                  e == onUpdateGame(c, m)
              IN  ( /\ e.err = ""
                    /\ e.storage[g][1].oPlayer = "ai"
                    /\ ~e.storage[g][1].isXNext
                    /\ e.storage[g][1].winner = None )
                  => /\ Len(e.sent) = 3
                     /\ e.sent[1] = broadcastGameUpdate(g, e.storage[g][1])
                     /\ e.sent[1].type = "game_updated"
                     /\ e.sent[2].type = "ai_thinking"
                     /\ e.sent[3].type = "move_processed"
                     /\ \A i \in 1 .. 3 : e.sent[i].to = "all"
                     /\ MarkCount(e.storage[g][1].board)
                            = MarkCount(Stored(g).board) + 1
                     /\ e.aiTasks = aiTasks (+) SetToBag({Sleeping(g)})
    /\ \A t \in BagToSet(aiTasks) :
          IF t.phase = "delay"
          THEN \A reply \in AIReplies :
                  /\ aiTaskCall(t, reply).sent = << >>
                  /\ aiTaskCall(t, reply).storage = storage
          ELSE IF aiTaskApply(t).err # ""
          THEN /\ aiTaskApply(t).sent = << >>
               /\ aiTaskApply(t).storage = storage
          ELSE aiTaskApply(t).sent
                   = << broadcastGameUpdate(
                            t.gameId, aiTaskApply(t).storage[t.gameId][1]) >>

\* A human move has left the AI to move and the AI task waits on its timer
C30_Witness ==
    \E t \in BagToSet(aiTasks) :
        /\ t.phase = "delay"
        /\ HasGame(t.gameId)
        /\ ~Stored(t.gameId).isXNext
        /\ Stored(t.gameId).winner = None
        /\ MarkCount(Stored(t.gameId).board) = 3

\* C11: when an update_game message has been accepted, the same message (same
\* position, same playerId) submitted again is rejected with the cell-occupied
\* error and leaves the storage as the first submission left it.
C11_SecondSubmissionOccupied ==
    [][storage' # storage =>
          \A c \in Bound : \A m \in UpdateMessages(connState[c]) :
              ( /\ HasGame(connState[c])
                /\ onUpdateGame(c, m).err = ""
                /\ storage' = onUpdateGame(c, m).storage
                /\ connState' = onUpdateGame(c, m).connState
                /\ aiTasks' = onUpdateGame(c, m).aiTasks
                /\ clock' = onUpdateGame(c, m).clock )
              => /\ (onUpdateGame(c, m).err)' = ErrOccupied
                 /\ (onUpdateGame(c, m).storage)' = storage']_vars

\* C16: every update_game and end_game that onMessage handles for a connection
\* bound to a game ends with a broadcast that every open connection receives,
\* whether the operation succeeded (move_processed, game_ended) or was rejected.
C16_EveryMessageBroadcast ==
    \A c \in Bound :
        HasGame(connState[c]) =>
            /\ \A m \in UpdateMessages(connState[c]) :
                  LET e == onUpdateGame(c, m)
                  IN  /\ e.sent # << >>
                      /\ Receivers(e.sent[Len(e.sent)], e.connState) = Bound
                      /\ e.err = "" => e.sent[Len(e.sent)].type = "move_processed"
            /\ LET e == onEndGame(c)
               IN  /\ e.sent # << >>
                   /\ Receivers(e.sent[Len(e.sent)], e.connState) = Bound
                   /\ e.err = "" => e.sent[Len(e.sent)].type = "game_ended"

\* C17: when a connection closes, every other open connection of the same
\* binding receives a player_disconnected message.
C17_OthersToldOfDisconnect ==
    \A c \in Bound : \A d \in Bound \ {c} :
        connState[d] = connState[c] =>
            \E i \in 1 .. Len(onClose(c).sent) :
                /\ onClose(c).sent[i].type = "player_disconnected"
                /\ d \in Receivers(onClose(c).sent[i], onClose(c).connState)

-----------------------------------------------------------------------------
(* GameAgent and GameApi: initial state and actions.                       *)
(* A server function runs outside the agent; each of its awaits on the     *)
(* agent (game.state, game.setState, game.makeAIMove) is one action.       *)

InitApi ==
    /\ variant = "GameAgent"
    /\ storage = [g \in GameIds |-> NoRecord]
    /\ initBoard = EmptyBoard
    /\ connState = [c \in Conns |-> Closed]
    /\ aiTasks = EmptyBag
    /\ agent = initialState
    /\ creation = NoCreation
    /\ calls = [p \in Callers |-> NoCall]
    /\ callsMade = 0
    /\ fnCall = NoFnCall(EmptyBoard)
    /\ LobbyIdle
    /\ clock = 0

IsApi == variant = "GameAgent"

\* GameApi.createGame, line 73: lobby.createGame calls game.setup({ slug })
CreateSetup(opponentType) ==
    /\ IsApi
    /\ creation.pc = "none"
    /\ agent' = setup(Slug)
    /\ creation' = [creation EXCEPT !.pc = "read",
                                    !.opponentType = opponentType,
                                    !.aiStarted = setupStartsAIMove(Slug)]
    /\ UNCHANGED <<variant, fnCall, lobbyVars, gmVars, calls, callsMade, clock>>

\* GameApi.createGame, lines 78 and 85/108: the symbol drawn, the state read.
\* Building the players of the new state from a state without a game throws.
CreateRead(creatorSymbol) ==
    /\ IsApi
    /\ creation.pc = "read"
    /\ creation' = IF HasPlayers(agent)
                   THEN [creation EXCEPT !.pc = "write",
                                         !.creatorSymbol = creatorSymbol,
                                         !.state = agent]
                   ELSE [creation EXCEPT !.pc = "failed",
                                         !.creatorSymbol = creatorSymbol]
    /\ UNCHANGED <<variant, fnCall, lobbyVars, gmVars, agent, calls, callsMade, clock>>

\* GameApi.createGame, lines 86/109: game.setState
CreateWrite ==
    /\ IsApi
    /\ creation.pc = "write"
    /\ agent' = configured(creation.state, creation.opponentType,
                           creation.creatorSymbol)
    /\ creation' = [creation EXCEPT !.pc = "done", !.state = initialState]
    /\ UNCHANGED <<variant, fnCall, lobbyVars, gmVars, calls, callsMade, clock>>

\* GameApi.makeMove, lines 181-186: the state read and checked.  A call that
\* throws here has written nothing.
MoveRead(p, position, playerSymbol) ==
    /\ IsApi
    /\ calls[p].pc = "idle"
    /\ callsMade < MaxMoveCalls
    /\ callsMade' = callsMade + 1
    /\ calls' = IF moveError(agent, position) # "" THEN calls
                ELSE [calls EXCEPT ![p] = [NoCall EXCEPT
                                              !.pc = "write",
                                              !.position = position,
                                              !.playerSymbol = playerSymbol,
                                              !.state = agent]]
    /\ UNCHANGED <<variant, fnCall, lobbyVars, gmVars, agent, creation, clock>>

\* GameApi.makeMove, lines 189-205: the first setState
MoveWrite(p) ==
    /\ IsApi
    /\ calls[p].pc = "write"
    /\ LET c == calls[p]
       IN  /\ agent' = moved(c.state, c.position, c.playerSymbol, clock + 1)
           /\ calls' = [calls EXCEPT ![p] =
                           IF wantsAIMove(c.state, c.position, c.playerSymbol)
                               THEN [c EXCEPT !.pc = "ai"]
                               ELSE NoCall]
    /\ clock' = clock + 1
    /\ UNCHANGED <<variant, fnCall, lobbyVars, gmVars, creation, callsMade>>

\* GameApi.makeMove, line 206: GameAgent.makeAIMove on the agent's state as it
\* is now.  It throws for a human player and when the bot finds no empty cell;
\* the call then ends with its first write in place.
MoveAI(p, gen) ==
    /\ IsApi
    /\ calls[p].pc = "ai"
    /\ LET c == calls[p]
           sym == Other(c.playerSymbol)
           aiMove == IF ~HasPlayers(agent)
                        \/ agent.game[1].players[sym].type # AI
                     THEN BotThrow
                     ELSE botMakeMove(agent.game[1].board, gen)
       IN  calls' = [calls EXCEPT ![p] =
                        IF aiMove = BotThrow THEN NoCall
                        ELSE [c EXCEPT !.pc = "read2", !.aiMove = aiMove]]
    /\ UNCHANGED <<variant, fnCall, lobbyVars, gmVars, agent, creation, callsMade, clock>>

\* GameApi.makeMove, line 211: the state read again
MoveRead2(p) ==
    /\ IsApi
    /\ calls[p].pc = "read2"
    /\ calls' = [calls EXCEPT ![p] = [@ EXCEPT !.pc = "write2",
                                               !.updatedState = agent]]
    /\ UNCHANGED <<variant, fnCall, lobbyVars, gmVars, agent, creation, callsMade, clock>>

\* GameApi.makeMove, lines 212-216: the second setState.  The state the call
\* returns (line 219) is read after it and changes nothing.
MoveWrite2(p) ==
    /\ IsApi
    /\ calls[p].pc = "write2"
    /\ LET c == calls[p]
       IN  agent' = aiMoved(c.state, c.position, c.playerSymbol, c.aiMove,
                            c.updatedState, clock + 1)
    /\ calls' = [calls EXCEPT ![p] = NoCall]
    /\ clock' = clock + 1
    /\ UNCHANGED <<variant, fnCall, lobbyVars, gmVars, creation, callsMade>>

\* GameApi.getGameState: one read of the agent's state
GetGameState(p) ==
    /\ IsApi
    /\ calls[p].pc = "idle"
    /\ callsMade < MaxMoveCalls
    /\ getGameState(agent).err = ""
    /\ callsMade' = callsMade + 1
    /\ UNCHANGED <<variant, fnCall, lobbyVars, gmVars, agent, creation, calls, clock>>

\* GameApi.joinGame, lines 241-252: the state read and checked
JoinRead(p) ==
    /\ IsApi
    /\ calls[p].pc = "idle"
    /\ callsMade < MaxMoveCalls
    /\ callsMade' = callsMade + 1
    /\ calls' = IF joinError(agent) # "" THEN calls
                ELSE [calls EXCEPT ![p] = [NoCall EXCEPT !.pc = "join",
                                                         !.state = agent]]
    /\ UNCHANGED <<variant, fnCall, lobbyVars, gmVars, agent, creation, clock>>

JoinWriteTellsLobby(p) ==
    /\ IsApi
    /\ calls[p].pc = "join"
    /\ agent' = joinGame(calls[p].state).state
    /\ calls' = [calls EXCEPT ![p] = NoCall]
    /\ lobbyState' = createdState(deletedState(lobbyState, 1), 1, AI)
    /\ UNCHANGED <<variant, fnCall, games, gameAgents, lobbyCalls,
                   lobbyCallsMade, slugsMade, gmVars, creation, callsMade,
                   clock>>

\* GameApi.joinGame, lines 254-268: game.setState
JoinWrite(p) ==
    /\ IsApi
    /\ calls[p].pc = "join"
    /\ agent' = joinGame(calls[p].state).state
    /\ calls' = [calls EXCEPT ![p] = NoCall]
    /\ UNCHANGED <<variant, fnCall, lobbyVars, gmVars, creation, callsMade, clock>>

\* GameApi.switchToAI, lines 290-296: the state read
SwitchRead(p) ==
    /\ IsApi
    /\ calls[p].pc = "idle"
    /\ callsMade < MaxMoveCalls
    /\ callsMade' = callsMade + 1
    /\ calls' = IF switchError(agent) # "" THEN calls
                ELSE [calls EXCEPT ![p] = [NoCall EXCEPT !.pc = "switch",
                                                         !.state = agent]]
    /\ UNCHANGED <<variant, fnCall, lobbyVars, gmVars, agent, creation, clock>>

\* GameApi.switchToAI, lines 298-315: game.setState
SwitchWrite(p) ==
    /\ IsApi
    /\ calls[p].pc = "switch"
    /\ agent' = switchToAI(calls[p].state).state
    /\ calls' = [calls EXCEPT ![p] = NoCall]
    /\ UNCHANGED <<variant, fnCall, lobbyVars, gmVars, creation, callsMade, clock>>

\* LobbyAgent.deleteGame, line 348: GameAgent.delete destroys the agent and its
\* storage; the next access by name finds a new instance in its initialState.
Destroy ==
    /\ IsApi
    /\ creation.pc # "none"
    /\ ~creation.destroyed
    /\ agent' = initialState
    /\ creation' = [creation EXCEPT !.destroyed = TRUE]
    /\ UNCHANGED <<variant, fnCall, lobbyVars, gmVars, calls, callsMade, clock>>

NextApi ==
    \/ \E o \in {Human, AI} : CreateSetup(o)
    \/ \E s \in Marks : CreateRead(s)
    \/ CreateWrite
    \/ \E p \in Callers, m \in ApiPositions, s \in Marks : MoveRead(p, m, s)
    \/ \E p \in Callers : MoveWrite(p)
    \/ \E p \in Callers, gen \in GenOutcomes : MoveAI(p, gen)
    \/ \E p \in Callers : MoveRead2(p)
    \/ \E p \in Callers : MoveWrite2(p)
    \/ \E p \in Callers : GetGameState(p)
    \/ \E p \in Callers : JoinRead(p)
    \/ \E p \in Callers : JoinWrite(p)
    \/ \E p \in Callers : SwitchRead(p)
    \/ \E p \in Callers : SwitchWrite(p)
    \/ Destroy

SpecApi == InitApi /\ [][NextApi]_vars

-----------------------------------------------------------------------------
(* Either variant *)

Init == InitGM \/ InitApi
Next == NextGM \/ NextApi
Spec == Init /\ [][Next]_vars

-----------------------------------------------------------------------------
(* Properties of GameAgent and GameApi *)

Created == creation.pc = "done"
Board == agent.game[1].board

\* C4: once GameApi.createGame has finished, a cell that holds a mark keeps that
\* mark in every later state, whatever the interleaving of the makeMove calls.
C4_CellsNeverLost ==
    [][(Created /\ agent.game # NoGame /\ agent'.game # NoGame) =>
          \A i \in Cells :
              Board[i] # None => agent'.game[1].board[i] = Board[i]]_vars

\* C8: when GameApi.createGame has finished on a game whose creator is O and
\* whose AI opponent is X with the first turn, and no makeMove call has been
\* made, GameAgent.setup has started the AI move and X's first move is on the
\* board.
C8_AIOpens ==
    ( /\ Created
      /\ callsMade = 0
      /\ agent.game # NoGame
      /\ creation.opponentType = AI
      /\ creation.creatorSymbol = "O"
      /\ agent.game[1].players.X.type = AI
      /\ agent.game[1].currentTurn = "X" )
    => /\ creation.aiStarted
       /\ \E i \in Cells : Board[i] = "X"

Quiet == \A p \in Callers : calls[p].pc = "idle"

\* C24: once GameApi.createGame has finished, the stored currentTurn is X when
\* the number of marks on the board is even and O when it is odd.
C24_CurrentTurnIsParity ==
    (Created /\ ~creation.destroyed /\ HasPlayers(agent)) =>
        agent.game[1].currentTurn
            = (IF MarkCount(Board) % 2 = 0 THEN "X" ELSE "O")

\* C25: once GameApi.createGame has finished, the number of X marks on the
\* board minus the number of O marks is 0 or 1, whatever playerSymbol the
\* makeMove calls carry.
C25_MarksAlternate ==
    (Created /\ ~creation.destroyed /\ HasPlayers(agent)) =>
        CountOf(Board, "X") - CountOf(Board, "O") \in {0, 1}

\* C12: when GameApi.createGame has finished and nothing else has been called,
\* the waitingForPlayer value it returned equals the stored waitingForPlayers;
\* a game with a human opponent is waiting (waitingForPlayers, not inProgress,
\* opponent slot pending) and a joinGame on it succeeds and starts it; a game
\* with an AI opponent is in progress.
C12_HumanGameAwaitsPlayers ==
    (Created /\ ~creation.destroyed /\ callsMade = 0 /\ HasPlayers(agent)) =>
        /\ createReturn(creation.opponentType, creation.creatorSymbol).waitingForPlayer
               = agent.waitingForPlayers
        /\ creation.opponentType = Human =>
               /\ agent.waitingForPlayers
               /\ ~agent.inProgress
               /\ agent.game[1].players[Other(creation.creatorSymbol)].pending
               /\ joinGame(agent).err = ""
               /\ joinGame(agent).state.inProgress
        /\ creation.opponentType = AI =>
               /\ ~agent.waitingForPlayers
               /\ agent.inProgress

\* C13: joinGame on a game that is not waiting for players throws and leaves
\* the agent's state (players, board, flags) as it was.
C13_JoinRejectedWhenNotWaiting ==
    ~agent.waitingForPlayers =>
        /\ joinGame(agent).err # ""
        /\ joinGame(agent).state = agent

\* C13 witness: a created game with a human opponent and a mark on the board,
\* on which joinGame throws "Game full".
C13_Witness ==
    /\ Created /\ ~creation.destroyed
    /\ creation.opponentType = Human
    /\ HasPlayers(agent)
    /\ \E i \in Cells : Board[i] # None
    /\ joinGame(agent).err = ErrFull

\* C14: switchToAI on a game in which neither player is pending throws and
\* leaves both players as they were.
C14_SwitchNeedsPendingSlot ==
    ( /\ HasPlayers(agent)
      /\ ~agent.game[1].players.X.pending
      /\ ~agent.game[1].players.O.pending )
    => /\ switchToAI(agent).err # ""
       /\ switchToAI(agent).state.game[1].players = agent.game[1].players

\* C15: once the game has been destroyed and no call that started before is
\* still running, the agent holds no game and getGameState, makeMove, joinGame
\* and switchToAI all throw and leave it so.
C15_DestroyedGameRejectsAll ==
    (creation.destroyed /\ Created /\ Quiet /\ agent = initialState) =>
        /\ getGameState(agent).err # ""
        /\ \A m \in ApiPositions, sym \in Marks :
               /\ makeMoveFirst(agent, m, sym, clock + 1).err # ""
               /\ makeMoveFirst(agent, m, sym, clock + 1).state = agent
        /\ joinGame(agent).err # "" /\ joinGame(agent).state = agent
        /\ switchToAI(agent).err # "" /\ switchToAI(agent).state = agent

-----------------------------------------------------------------------------
(* LobbyAgent: initial state and actions *)

InitLobby ==
    /\ variant = "Lobby"
    /\ storage = [g \in GameIds |-> NoRecord]
    /\ initBoard = EmptyBoard
    /\ connState = [c \in Conns |-> Closed]
    /\ aiTasks = EmptyBag
    /\ creation = NoCreation
    /\ calls = [p \in Callers |-> NoCall]
    /\ callsMade = 0
    /\ fnCall = NoFnCall(EmptyBoard)
    /\ \E n \in 0 .. ListLimit, t \in {Human, AI} :
            /\ Populated(n, t)
            /\ agent = IF n >= Watched THEN PlayedGame(t) ELSE initialState
    /\ clock = 0

IsLobby == variant = "Lobby"

CanCall(u) ==
    /\ IsLobby
    /\ lobbyCalls[u].pc \in {"idle", "done"}
    /\ lobbyCallsMade < MaxLobbyCalls

\* createGame, lines 274-278: generateGameSlug returns a slug never made
\* before or one made before; game.setup({ slug }) runs in the GameAgent
CreateGameSetup(u, opponentType, slug) ==
    /\ CanCall(u)
    /\ slug \in 1 .. (IF slugsMade < MaxSlugs THEN slugsMade + 1 ELSE slugsMade)
    /\ slugsMade' = IF slug > slugsMade THEN slug ELSE slugsMade
    /\ gameAgents' = gameAgents \cup {slug}
    /\ lobbyCalls' = [lobbyCalls EXCEPT ![u] =
                        [NoLobbyCall EXCEPT !.op = "create", !.pc = "setup",
                                            !.slug = slug,
                                            !.opponentType = opponentType]]
    /\ lobbyCallsMade' = lobbyCallsMade + 1
    /\ agent' = IF slug = Watched THEN setup(Slug) ELSE agent
    /\ UNCHANGED <<variant, fnCall, gmVars, creation, calls, callsMade,
                   lobbyState, games, clock>>

\* createGame, lines 280-291: the INSERT throws on a slug the table holds;
\* else the two arrays of this.state are read and game.state is awaited
CreateGameInsert(u) ==
    /\ IsLobby
    /\ lobbyCalls[u].pc = "setup"
    /\ IF \E i \in 1 .. Len(games) : games[i] = lobbyCalls[u].slug
       THEN /\ lobbyCalls' = [lobbyCalls EXCEPT ![u] = Returned(@, ErrUnique)]
            /\ games' = games
       ELSE /\ lobbyCalls' = [lobbyCalls EXCEPT ![u].pc = "reading",
                                                ![u].captured = "live"]
            /\ games' = Append(games, lobbyCalls[u].slug)
    /\ UNCHANGED <<variant, fnCall, gmVars, apiVars, lobbyState, gameAgents,
                   lobbyCallsMade, slugsMade, clock>>

\* createGame, lines 286-309: unshift onto the arrays read at lines 282-283,
\* setState with both sliced, return the slug
CreateGameWrite(u) ==
    /\ IsLobby
    /\ lobbyCalls[u].pc = "reading"
    /\ LET c == lobbyCalls[u]
           held == IF c.captured = "live" THEN lobbyState ELSE c.arrays
           left == IF c.captured = "live"
                   THEN unshift(held, c.slug, c.opponentType)
                   ELSE lobbyState
       IN  /\ lobbyState' = createdState(held, c.slug, c.opponentType)
           /\ lobbyCalls' =
                  detach([lobbyCalls EXCEPT ![u] = Returned(@, "")], left)
    /\ UNCHANGED <<variant, fnCall, gmVars, apiVars, games, gameAgents,
                   lobbyCallsMade, slugsMade, clock>>

DeleteGameDestroyUnchecked(u, slug) ==
    /\ CanCall(u)
    /\ slug \in {NoSlug} \cup 1 .. slugsMade
    /\ lobbyCalls' = [lobbyCalls EXCEPT ![u] =
                          [NoLobbyCall EXCEPT !.op = "delete", !.slug = slug,
                                              !.pc = "deleting"]]
    /\ gameAgents' = gameAgents \ {slug}
    /\ lobbyCallsMade' = lobbyCallsMade + 1
    /\ agent' = IF slug = Watched THEN initialState ELSE agent
    /\ UNCHANGED <<variant, fnCall, gmVars, creation, calls, callsMade,
                   lobbyState, games, slugsMade, clock>>

\* deleteGame, lines 344-348: throw on an empty slug, else game.delete()
\* destroys the GameAgent's state
DeleteGameDestroy(u, slug) ==
    /\ CanCall(u)
    /\ slug \in {NoSlug} \cup 1 .. slugsMade
    /\ LET call == [NoLobbyCall EXCEPT
                        !.op = "delete", !.slug = slug,
                        !.again = \E v \in LobbyCallers :
                                      DeletedOk(lobbyCalls[v], slug)]
       IN  IF slug = NoSlug
           THEN /\ lobbyCalls' = [lobbyCalls EXCEPT ![u] =
                                      Returned(call, ErrNoSlug)]
                /\ gameAgents' = gameAgents
           ELSE /\ lobbyCalls' = [lobbyCalls EXCEPT ![u] =
                                      [call EXCEPT !.pc = "deleting"]]
                /\ gameAgents' = gameAgents \ {slug}
    /\ lobbyCallsMade' = lobbyCallsMade + 1
    /\ agent' = IF slug = Watched THEN initialState ELSE agent
    /\ UNCHANGED <<variant, fnCall, gmVars, creation, calls, callsMade,
                   lobbyState, games, slugsMade, clock>>

\* deleteGame, lines 349-357: DELETE the row, setState with both lists
\* filtered
DeleteGameWrite(u) ==
    /\ IsLobby
    /\ lobbyCalls[u].pc = "deleting"
    /\ games' = SelectSeq(games, LAMBDA g : g # lobbyCalls[u].slug)
    /\ lobbyState' = deletedState(lobbyState, lobbyCalls[u].slug)
    /\ lobbyCalls' =
           detach([lobbyCalls EXCEPT ![u] = Returned(@, "")], lobbyState)
    /\ UNCHANGED <<variant, fnCall, gmVars, apiVars, gameAgents, lobbyCallsMade,
                   slugsMade, clock>>

NextLobby ==
    \/ \E u \in LobbyCallers, t \in {Human, AI}, slug \in 1 .. MaxSlugs :
            CreateGameSetup(u, t, slug)
    \/ \E u \in LobbyCallers : CreateGameInsert(u)
    \/ \E u \in LobbyCallers : CreateGameWrite(u)
    \/ \E u \in LobbyCallers, slug \in 0 .. MaxSlugs :
            DeleteGameDestroy(u, slug)
    \/ \E u \in LobbyCallers : DeleteGameWrite(u)

SpecLobby == InitLobby /\ [][NextLobby]_vars

-----------------------------------------------------------------------------
(* Properties of LobbyAgent *)

Listed(st, slug) ==
    \/ \E i \in 1 .. Len(st.gamesSeekingPlayers) :
            st.gamesSeekingPlayers[i].slug = slug
    \/ \E i \in 1 .. Len(st.gamesInProgress) :
            st.gamesInProgress[i].slug = slug

\* C18: the step of createGame that writes the state puts the new summary at
\* index 0 of the list of its opponent type, keeps the 5 first entries of that
\* list, and leaves the other list as it was.
C18_CreateGamePutsSummaryFirst ==
    [][\A u \in LobbyCallers :
          (lobbyCalls[u].pc = "reading" /\ lobbyCalls'[u].pc = "done") =>
              LET c == lobbyCalls[u]
                  mine == ListOf(c.opponentType)
                  other == ListOf(IF c.opponentType = Human THEN AI ELSE Human)
              IN  /\ lobbyState'[mine] =
                        slice(<< Summary(c.slug, c.opponentType) >>
                                  \o lobbyState[mine])
                  /\ lobbyState'[other] = lobbyState[other]]_vars

\* C19: a createGame call never returns an error, and the table games never
\* holds two rows of one slug.
C19_CollisionsRetried ==
    /\ \A u \in LobbyCallers :
          (lobbyCalls[u].op = "create" /\ lobbyCalls[u].pc = "done") =>
              lobbyCalls[u].err = ""
    /\ \A i, j \in 1 .. Len(games) : games[i] = games[j] => i = j

\* C20: the step of deleteGame that writes the state, of a first call or of a
\* call for a slug already deleted, returns without error and leaves the slug
\* in no row of games and in neither list, with the rows and the entries of
\* every other slug as they were.
C20_DeleteGameTwice ==
    [][\A u \in LobbyCallers :
          (lobbyCalls[u].pc = "deleting" /\ lobbyCalls'[u].pc = "done") =>
              LET s == lobbyCalls[u].slug
              IN  /\ lobbyCalls'[u].err = ""
                  /\ \A i \in 1 .. Len(games') : games'[i] # s
                  /\ ~Listed(lobbyState', s)
                  /\ games' = SelectSeq(games, LAMBDA g : g # s)
                  /\ \A l \in {"gamesSeekingPlayers", "gamesInProgress"} :
                        lobbyState'[l] = removeSlug(lobbyState[l], s)]_vars

\* A second deleteGame of a slug has returned after the first one did
C20_Witness ==
    \E u \in LobbyCallers :
        /\ DeletedOk(lobbyCalls[u], lobbyCalls[u].slug)
        /\ lobbyCalls[u].again
        /\ ~Listed(lobbyState, lobbyCalls[u].slug)

\* C38: createGame leaves an existing game as it was: a step of a createGame
\* call whose slug is that of a game with a row in the table and a state of
\* its own changes nothing in that game's state (board, players, winner,
\* flags).
C38_CreateGameKeepsExistingGame ==
    [][(/\ \E k \in 1 .. Len(games) : games[k] = Watched
        /\ HasPlayers(agent)
        /\ \E u \in LobbyCallers :
               /\ lobbyCalls'[u] # lobbyCalls[u]
               /\ lobbyCalls'[u].op = "create"
               /\ lobbyCalls'[u].slug = Watched)
          => agent' = agent]_vars

\* C31: each summary list holds at most 5 entries, no slug is listed twice,
\* in one list or across the two, and each list has the game created later
\* (the later row of games) first.
C31_ListsBoundedOrderedDistinct ==
    LET all == lobbyState.gamesSeekingPlayers \o lobbyState.gamesInProgress
        row(slug) == CHOOSE k \in 1 .. Len(games) : games[k] = slug
        inTable(slug) == \E k \in 1 .. Len(games) : games[k] = slug
    IN  /\ Len(lobbyState.gamesSeekingPlayers) <= 5
        /\ Len(lobbyState.gamesInProgress) <= 5
        /\ \A i, j \in 1 .. Len(all) : all[i].slug = all[j].slug => i = j
        /\ \A l \in {"gamesSeekingPlayers", "gamesInProgress"} :
              \A i, j \in 1 .. Len(lobbyState[l]) :
                  ( /\ i < j
                    /\ inTable(lobbyState[l][i].slug)
                    /\ inTable(lobbyState[l][j].slug) )
                  => row(lobbyState[l][i].slug) > row(lobbyState[l][j].slug)

\* C32: every slug listed in gamesSeekingPlayers or gamesInProgress has a row
\* in the table games.
C32_ListedGamesAreStored ==
    \A slug \in 1 .. MaxSlugs :
        Listed(lobbyState, slug) => \E k \in 1 .. Len(games) : games[k] = slug

\* C21: a deleteGame call with an empty slug returns the error "No slug
\* provided" at once and leaves the rows of games, both summary lists and
\* every GameAgent as they were.
C21_EmptySlugRejected ==
    [][\A u \in LobbyCallers :
          ( /\ lobbyCallsMade' # lobbyCallsMade
            /\ lobbyCalls' = [lobbyCalls EXCEPT ![u] = lobbyCalls'[u]]
            /\ lobbyCalls'[u].op = "delete"
            /\ lobbyCalls'[u].slug = NoSlug )
          => /\ lobbyCalls'[u].pc = "done"
             /\ lobbyCalls'[u].err = ErrNoSlug
             /\ games' = games
             /\ lobbyState' = lobbyState
             /\ gameAgents' = gameAgents]_vars

\* A deleteGame call with an empty slug has returned, in a lobby with games
C21_Witness ==
    /\ games # << >>
    /\ \E u \in LobbyCallers :
          /\ lobbyCalls[u].op = "delete" /\ lobbyCalls[u].slug = NoSlug
          /\ lobbyCalls[u].pc = "done" /\ lobbyCalls[u].err = ErrNoSlug

-----------------------------------------------------------------------------
(* The functions of a board alone, applied to every board: calculateWinner of
   GameManager and of GameApi, and BaseBotPlayer.makeMove with every outcome
   of generateMove. *)

InitFn ==
    /\ variant = "Function"
    /\ storage = [g \in GameIds |-> NoRecord]
    /\ initBoard = EmptyBoard
    /\ connState = [c \in Conns |-> Closed]
    /\ aiTasks = EmptyBag
    /\ agent = initialState
    /\ creation = NoCreation
    /\ calls = [p \in Callers |-> NoCall]
    /\ callsMade = 0
    /\ LobbyIdle
    /\ \E board \in [Cells -> Marks \cup {None}] : fnCall = NoFnCall(board)
    /\ clock = 0

CalculateWinner ==
    /\ variant = "Function"
    /\ fnCall.op = "none"
    /\ fnCall' = [fnCall EXCEPT
                     !.op = "calculateWinner",
                     !.gmWinner = calculateWinner(fnCall.board),
                     !.apiWinner = apiCalculateWinner(fnCall.board)]
    /\ UNCHANGED <<variant, gmVars, apiVars, lobbyVars, clock>>

\* generateMove throws or returns null, NaN, a fraction or an integer
BotMakeMove(gen) ==
    /\ variant = "Function"
    /\ fnCall.op = "none"
    /\ fnCall' = [fnCall EXCEPT !.op = "makeMove", !.gen = gen,
                                !.move = botMakeMove(fnCall.board, gen)]
    /\ UNCHANGED <<variant, gmVars, apiVars, lobbyVars, clock>>

NextFn ==
    \/ CalculateWinner
    \/ \E gen \in {GenThrow, GenNull, [kind |-> "NaN", v |-> 0],
                   [kind |-> "fraction", v |-> 0]}
                      \cup {GenValue(v) : v \in Positions} : BotMakeMove(gen)

SpecFn == InitFn /\ [][NextFn]_vars

\* C22: calculateWinner of GameManager and of GameApi return the mark of a
\* uniform non-empty line when the board has one (also on a full board),
\* else "Draw" when no cell is empty, else no winner.
C22_CalculateWinner ==
    fnCall.op = "calculateWinner" =>
        LET b == fnCall.board
            triples == {{3 * r, 3 * r + 1, 3 * r + 2} : r \in 0 .. 2}
                           \cup {{c, c + 3, c + 6} : c \in 0 .. 2}
                           \cup {{0, 4, 8}, {2, 4, 6}}
            won == {m \in Marks : \E t \in triples : \A i \in t : b[i] = m}
        IN  \A w \in {fnCall.gmWinner, fnCall.apiWinner} :
                /\ won # {} => w \in won
                /\ (won = {} /\ \A i \in Cells : b[i] # None) => w = "Draw"
                /\ (won = {} /\ \E i \in Cells : b[i] = None) => w = None

\* calculateWinner has returned a mark for a full board with a uniform line
C22_Witness ==
    /\ fnCall.op = "calculateWinner"
    /\ \A i \in Cells : fnCall.board[i] # None
    /\ fnCall.gmWinner \in Marks
    /\ fnCall.apiWinner \in Marks

-----------------------------------------------------------------------------
(* Properties of both variants *)

\* C6: a rejected move leaves the persisted game as it was.  In GameManager an
\* update_game that throws (game not found, wrong turn, position outside 0..8,
\* occupied cell, game id mismatch) leaves the whole storage, so the record's
\* board, isXNext, winner and updatedAt, unchanged; in GameApi a makeMove call
\* that throws on the state it read leaves the agent's state unchanged.
C6_RejectionChangesNothing ==
    /\ [](\A c \in Bound : \A m \in UpdateMessages(connState[c]) :
              onUpdateGame(c, m).err # ""
                  => /\ onUpdateGame(c, m).err \in MoveErrors
                     /\ onUpdateGame(c, m).storage = storage)
    /\ [][(callsMade' = callsMade + 1 /\ calls' = calls) => agent' = agent]_vars

\* C37: in a game that GameApi.createGame made with a human opponent and whose
\* open slot has not been bound since (no switchToAI), both player slots are of
\* Human kind whichever symbol the creator got, and no makeMove on it asks for
\* an AI move.
C37_HumanGameHasNoAI ==
    (/\ Created
     /\ creation.opponentType = Human
     /\ HasPlayers(agent)
     /\ \E s \in Marks : agent.game[1].players[s].pending)
        => /\ \A s \in Marks : agent.game[1].players[s].type = Human
           /\ \A position \in ApiPositions, playerSymbol \in Marks :
                  moveError(agent, position) = ""
                      => ~wantsAIMove(agent, position, playerSymbol)

\* C35: of the joinGame calls that read one waiting game at most one succeeds:
\* no call completes (writes the state and returns the pending symbol) on a
\* game in which a join of the state it read has already bound that slot.
C35_OneJoinSucceeds ==
    [][\A p \in Callers :
           (calls[p].pc = "join" /\ calls'[p].pc = "idle")
               => agent # joined(calls[p].state)]_vars

\* C34: a step of GameApi.makeMove, joinGame, switchToAI or getGameState, or
\* of any operation of the GameAgent they call (delete included), leaves the
\* lobby's two lists and its directory of games as they were; the only call of
\* GameApi into the lobby that writes is createGame's, whose first step is the
\* one taken while no creation is under way.
C34_GameCallsLeaveLobby ==
    [][creation.pc # "none"
          => /\ lobbyState' = lobbyState
             /\ games' = games]_vars

\* C34: a game exists that a second player has joined or whose slot was handed
\* to the AI, or on which a move was played.
C34_Witness ==
    /\ IsApi
    /\ Created
    /\ HasPlayers(agent)
    /\ MarkCount(Board) >= 1
    /\ ~agent.waitingForPlayers
    /\ lobbyState = lobbyInitialState

C6_Witness ==
    \E c \in Bound :
        /\ HasGame(connState[c])
        /\ MarkCount(Stored(connState[c]).board) >= 2
        /\ \A e \in {ErrMismatch, ErrNotX, ErrPosition, ErrOccupied} :
              \E m \in UpdateMessages(connState[c]) : onUpdateGame(c, m).err = e

====
